---- MODULE Spec2Model ----
(***************************************************************************)
(* CourseMap.jsx: the course map component.  State is the component's      *)
(* useState cells and memoised values; every action is one event handler   *)
(* together with the re-render and effects it causes.                      *)
(*                                                                         *)
(* Course numbers are JavaScript strings and are modelled as sequences of  *)
(* one-character strings, so that split(" "), parseInt, template strings   *)
(* and String.includes are computed, not assumed.                          *)
(***************************************************************************)
EXTENDS Integers, Sequences, FiniteSets, TLC

VARIABLES
  programsData,     \* the imported catalog (constant during a run)
  selectedProgram,  \* useState("")
  selectedNode,     \* useState(null)
  containerWidth,   \* useState(0), set by updateWidth on mount
  programStructure, \* memoised courses and levels of the selected program
  offset,           \* useState({x: 0, y: 0})
  isDragging,       \* useState(false)
  dragStart,        \* useState({x: 0, y: 0})
  nodePositions,    \* memoised layout result (holds the jitter drawn)
  svgDimensions,    \* memoised layout result
  listeners,        \* the native listeners the effect registered, and what they close over
  opened,           \* the window.open calls made by the last handler
  ev                \* the last event delivered, with the selection it found

vars == << programsData, selectedProgram, selectedNode, containerWidth,
           programStructure, offset,
           isDragging, dragStart, nodePositions, svgDimensions, listeners,
           opened, ev >>

(***************************************************************************)
(* Bounds of the model.                                                    *)
(***************************************************************************)
\* longest course list of a generated catalog
MaxCourses == 3
\* pointer events are generated while |offset.x|, |offset.y| stay within this
MaxPan == 50

\* window.innerWidth values reported by the browser; chosen so that
\* containerWidth * 0.7 / 2 is an integer and the layout needs no fractions
InnerWidths == {1048, 1248}
\* clientX/clientY of pointer events
Points == { [x |-> 100, y |-> 100], [x |-> 150, y |-> 130] }
\* e.button values: primary and secondary
Buttons == {0, 2}
\* values of (Math.random() - 0.5) * verticalNoise, a sample of [-15, 15)
Jitter == {-15, 14}

(***************************************************************************)
(* JavaScript values.                                                      *)
(***************************************************************************)
\* null / undefined for a string-valued cell: falsy, as the empty string is
Null == << >>
Truthy(s) == s # Null

\* parseInt of a string without a leading digit
NaN == -1

Digits == {"0", "1", "2", "3", "4", "5", "6", "7", "8", "9"}

DigitValue(ch) ==
  CASE ch = "0" -> 0 [] ch = "1" -> 1 [] ch = "2" -> 2 [] ch = "3" -> 3
    [] ch = "4" -> 4 [] ch = "5" -> 5 [] ch = "6" -> 6 [] ch = "7" -> 7
    [] ch = "8" -> 8 [] ch = "9" -> 9

\* s.split(" "): the pieces of s between spaces
RECURSIVE SplitFrom(_, _, _)
SplitFrom(s, i, cur) ==
  IF i > Len(s) THEN << cur >>
  ELSE IF s[i] = " " THEN << cur >> \o SplitFrom(s, i + 1, << >>)
  ELSE SplitFrom(s, i + 1, Append(cur, s[i]))

Split(s) == SplitFrom(s, 1, << >>)

\* parseInt(s): the number its leading digits spell, NaN if there are none
RECURSIVE ParseDigits(_, _, _)
ParseDigits(s, i, acc) ==
  IF i > Len(s) \/ s[i] \notin Digits THEN acc
  ELSE ParseDigits(s, i + 1, acc * 10 + DigitValue(s[i]))

ParseInt(s) ==
  IF Len(s) = 0 \/ s[1] \notin Digits THEN NaN ELSE ParseDigits(s, 1, 0)

\* Math.floor(n / 100) * 100
FloorHundred(n) == (n \div 100) * 100

Max(a, b) == IF a >= b THEN a ELSE b

(***************************************************************************)
(* The data files.                                                         *)
(***************************************************************************)
A10  == << "A", " ", "1", "0" >>
A100 == << "A", " ", "1", "0", "0" >>
A120 == << "A", " ", "1", "2", "0" >>
A200 == << "A", " ", "2", "0", "0" >>
A210 == << "A", " ", "2", "1", "0" >>
A300 == << "A", " ", "3", "0", "0" >>
A999 == << "A", " ", "9", "9", "9" >>
B150 == << "B", " ", "1", "5", "0", "D", "1" >>

\* ../data/<dept>.json: the department files that exist
DeptFiles ==
  [ d \in { << "A" >> } |->
      << [course_number |-> A10,  prerequisites |-> << >>,           link |-> "url-A10"],
         [course_number |-> A100, prerequisites |-> << >>,           link |-> "url-A100"],
         [course_number |-> A120, prerequisites |-> << A10 >>,       link |-> "url-A120"],
         [course_number |-> A200, prerequisites |-> << A100 >>,      link |-> "url-A200"],
         [course_number |-> A210, prerequisites |-> << A100, A10, A999 >>, link |-> "url-A210"],
         [course_number |-> A300, prerequisites |-> << A200, A999 >>, link |-> "url-A300"] >> ]

\* a program's own record of a course
ProgramCourse(cn) == [course_number |-> cn]

\* ../data/programs.json: two programs
Catalog ==
  << [program |-> "P1", courses |-> << ProgramCourse(A200), ProgramCourse(A100) >>],
     [program |-> "P2", courses |-> << ProgramCourse(A210), ProgramCourse(A10), ProgramCourse(A100) >>] >>

\* the course numbers generated catalogs draw from
Universe == { A10, A100, A120, B150, A200, A300 }

Range(s) == { s[i] : i \in DOMAIN s }

\* the sequences of at most n distinct members of S
RECURSIVE InjectiveSeqs(_, _)
InjectiveSeqs(S, n) ==
  IF n = 0 THEN { << >> }
  ELSE LET shorter == InjectiveSeqs(S, n - 1)
       IN  shorter \cup
           UNION { { Append(s, c) : c \in S \ Range(s) } :
                     s \in { t \in shorter : Len(t) = n - 1 } }

\* catalogs of one program "P" whose course list is any list of distinct courses
Catalogs ==
  { << [program |-> "P", courses |-> [i \in 1..Len(l) |-> ProgramCourse(l[i])]] >> :
      l \in InjectiveSeqs(Universe, MaxCourses) }

(***************************************************************************)
(* programStructure: the selected program's courses, merged with their     *)
(* department details and bucketed by level.                               *)
(***************************************************************************)
\* deptData.find((course) => course.course_number === courseNumber)
RECURSIVE FindCourse(_, _, _)
FindCourse(arr, i, courseNumber) ==
  IF i > Len(arr) THEN Null
  ELSE IF arr[i].course_number = courseNumber THEN arr[i]
  ELSE FindCourse(arr, i + 1, courseNumber)

\* programsData.find((p) => p.program === selectedProgram)
RECURSIVE FindProgram(_, _, _)
FindProgram(arr, i, program) ==
  IF i > Len(arr) THEN Null
  ELSE IF arr[i].program = program THEN arr[i]
  ELSE FindProgram(arr, i + 1, program)

getCourseDetails(courseNumber) ==
  LET dept == Split(courseNumber)[1]
  IN  IF dept \in DOMAIN DeptFiles
      THEN FindCourse(DeptFiles[dept], 1, courseNumber)
      ELSE Null   \* require() throws, the catch returns null

\* { ...course, ...details }: the details' fields win; spreading null adds nothing
Merge(course, details) == IF details = Null THEN course ELSE details @@ course

\* the level of a course: Math.floor(parseInt(number) / 100) * 100
LevelOf(course) ==
  LET parts == Split(course.course_number)
  IN  IF Len(parts) < 2 THEN NaN
      ELSE LET n == ParseInt(parts[2])
           IN  IF n = NaN THEN NaN ELSE FloorHundred(n)

\* a bucket update that replaces the bucket instead of pushing onto it
PushOverwriting(levels, course) ==
  LET level == LevelOf(course)
  IN  IF level \in DOMAIN levels
      THEN [levels EXCEPT ![level] = << course >>]
      ELSE levels @@ (level :> << course >>)

\* if (!levels[level]) levels[level] = []; levels[level].push(course)
PushLevel(levels, course) ==
  LET level == LevelOf(course)
  IN  IF level \in DOMAIN levels
      THEN [levels EXCEPT ![level] = Append(@, course)]
      ELSE levels @@ (level :> << course >>)

RECURSIVE BuildLevels(_, _, _)
BuildLevels(courses, i, levels) ==
  IF i > Len(courses) THEN levels
  ELSE BuildLevels(courses, i + 1, PushLevel(levels, courses[i]))

\* the useMemo on [selectedProgram]: Null, or the courses and their levels
ProgramStructureOf(data, program) ==
  IF program = "" THEN Null
  ELSE LET found == FindProgram(data, 1, program)
       IN  IF found = Null THEN Null
           ELSE LET coursesWithDetails ==
                      [i \in 1..Len(found.courses) |->
                         Merge(found.courses[i],
                               getCourseDetails(found.courses[i].course_number))]
                IN  [courses |-> coursesWithDetails,
                     levels  |-> BuildLevels(coursesWithDetails, 1, << >>)]

\* course.prerequisites || []
PrereqsOf(course) ==
  IF "prerequisites" \in DOMAIN course THEN course.prerequisites ELSE << >>

(***************************************************************************)
(* nodePositions / svgDimensions: the layout.                              *)
(***************************************************************************)
levelHeight == 150
nodeWidth == 120
\* containerWidth * 0.7
MapWidth(width) == (width * 7) \div 10

\* a key order that runs from the highest level down
RECURSIVE DescendingKeys(_)
DescendingKeys(S) ==
  IF S = {} THEN << >>
  ELSE LET greatest == CHOOSE k \in S : \A o \in S : k >= o
       IN  << greatest >> \o DescendingKeys(S \ {greatest})

\* Object.keys order: integer keys ascending, then string keys ("NaN")
RECURSIVE AscendingKeys(_)
AscendingKeys(S) ==
  IF S = {} THEN << >>
  ELSE LET numeric == S \ {NaN}
       IN  IF numeric = {} THEN << NaN >>
           ELSE LET least == CHOOSE k \in numeric : \A o \in numeric : k <= o
                IN  << least >> \o AscendingKeys(S \ {least})

\* Object.entries(levels): [level, courses] pairs in key order
Entries(levels) ==
  LET keys == AscendingKeys(DOMAIN levels)
  IN  [i \in 1..Len(keys) |-> << keys[i], levels[keys[i]] >>]

\* a centring that divides by the level's size instead of size - 1
XOffCentre(index, courses, mapWidth) ==
  ((2 * index - Len(courses)) * nodeWidth) \div 2 + mapWidth \div 2

\* x of the course at index (0-based) among the courses of its level
XOf(index, courses, mapWidth) ==
  ((2 * index - (Len(courses) - 1)) * nodeWidth) \div 2 + mapWidth \div 2

\* a placement that lets the jittered y, not baseY, set the bottom bound
RECURSIVE PlaceCoursesJitteredExtent(_, _, _, _, _, _)
PlaceCoursesJitteredExtent(courses, i, baseY, mapWidth, jit, acc) ==
  IF i > Len(courses) THEN acc
  ELSE LET course == courses[i]
           y == baseY + jit[course.course_number]
           x == XOf(i - 1, courses, mapWidth)
       IN  PlaceCoursesJitteredExtent(courses, i + 1, baseY, mapWidth, jit,
             [positions |-> [c \in DOMAIN acc.positions \cup {course.course_number} |->
                               IF c = course.course_number THEN [x |-> x, y |-> y]
                               ELSE acc.positions[c]],
              maxX |-> Max(acc.maxX, x + 60),
              maxY |-> Max(acc.maxY, y + 100)])

\* courses.forEach((course, index) => ...) of one level, from index i (1-based)
RECURSIVE PlaceCourses(_, _, _, _, _, _)
PlaceCourses(courses, i, baseY, mapWidth, jit, acc) ==
  IF i > Len(courses) THEN acc
  ELSE LET course == courses[i]
           randomOffset == jit[course.course_number]
           y == baseY + randomOffset
           x == XOf(i - 1, courses, mapWidth)
       IN  PlaceCourses(courses, i + 1, baseY, mapWidth, jit,
             [positions |-> [c \in DOMAIN acc.positions \cup {course.course_number} |->
                               IF c = course.course_number THEN [x |-> x, y |-> y]
                               ELSE acc.positions[c]],
              maxX |-> Max(acc.maxX, x + 60),
              maxY |-> acc.maxY])

\* Object.entries(levels).forEach(([level, courses], levelIndex) => ...), from entry i
RECURSIVE PlaceLevels(_, _, _, _, _)
PlaceLevels(entries, i, mapWidth, jit, acc) ==
  IF i > Len(entries) THEN acc
  ELSE LET levelIndex == i - 1
           baseY == levelIndex * levelHeight + 100
           withY == [acc EXCEPT !.maxY = Max(acc.maxY, baseY + 100)]
       IN  PlaceLevels(entries, i + 1, mapWidth, jit,
                       PlaceCourses(entries[i][2], 1, baseY, mapWidth, jit, withY))

\* the useMemo on [programStructure, containerWidth], for the jitter jit drawn
Layout(structure, width, jit) ==
  IF structure = Null
  THEN [nodePositions |-> << >>, svgDimensions |-> [width |-> 1000, height |-> 800]]
  ELSE LET mapWidth == MapWidth(width)
           done == PlaceLevels(Entries(structure.levels), 1, mapWidth, jit,
                               [positions |-> << >>, maxX |-> 0, maxY |-> 0])
       IN  [nodePositions |-> done.positions,
            svgDimensions |-> [width  |-> Max(mapWidth, done.maxX + 100),
                               height |-> done.maxY + 100]]

CourseNumbers(structure) ==
  IF structure = Null THEN {}
  ELSE { structure.courses[i].course_number : i \in DOMAIN structure.courses }

\* every outcome of the layout: one Math.random() draw per node
Layouts(structure, width) ==
  { Layout(structure, width, jit) : jit \in [CourseNumbers(structure) -> Jitter] }

(***************************************************************************)
(* The two edge lists.                                                     *)
(***************************************************************************)
\* `${prereq}-${course.course_number}`
EdgeId(prereq, courseNumber) == prereq \o << "-" >> \o courseNumber

\* course.prerequisites.forEach(...) of renderPrerequisiteLines, from prerequisite j
RECURSIVE LinesOfCourse(_, _, _, _)
LinesOfCourse(course, j, positions, lines) ==
  IF j > Len(PrereqsOf(course)) THEN lines
  ELSE LET prereq == PrereqsOf(course)[j]
       IN  LinesOfCourse(course, j + 1, positions,
             IF prereq \in DOMAIN positions
             THEN Append(lines, [id     |-> EdgeId(prereq, course.course_number),
                                 source |-> positions[prereq],
                                 target |-> positions[course.course_number]])
             ELSE lines)

\* programStructure.courses.forEach(...) of renderPrerequisiteLines, from course i
RECURSIVE LinesFrom(_, _, _, _)
LinesFrom(courses, i, positions, lines) ==
  IF i > Len(courses) THEN lines
  ELSE LinesFrom(courses, i + 1, positions,
         IF courses[i].course_number \notin DOMAIN positions THEN lines
         ELSE LinesOfCourse(courses[i], 1, positions, lines))

\* renderPrerequisiteLines drawing each line from the course to its prerequisite
RECURSIVE ReversedLinesOfCourse(_, _, _, _)
ReversedLinesOfCourse(course, j, positions, lines) ==
  IF j > Len(PrereqsOf(course)) THEN lines
  ELSE LET prereq == PrereqsOf(course)[j]
       IN  ReversedLinesOfCourse(course, j + 1, positions,
             IF prereq \in DOMAIN positions
             THEN Append(lines, [id     |-> EdgeId(prereq, course.course_number),
                                 source |-> positions[course.course_number],
                                 target |-> positions[prereq]])
             ELSE lines)

RECURSIVE ReversedLinesFrom(_, _, _, _)
ReversedLinesFrom(courses, i, positions, lines) ==
  IF i > Len(courses) THEN lines
  ELSE ReversedLinesFrom(courses, i + 1, positions,
         IF courses[i].course_number \notin DOMAIN positions THEN lines
         ELSE ReversedLinesOfCourse(courses[i], 1, positions, lines))

ReversedPrerequisiteLines(structure, positions) ==
  IF structure = Null THEN << >>
  ELSE ReversedLinesFrom(structure.courses, 1, positions, << >>)

\* renderPrerequisiteLines with the target check dropped: a missing
\* prerequisite yields a line whose source is undefined
RECURSIVE UncheckedLinesOfCourse(_, _, _, _)
UncheckedLinesOfCourse(course, j, positions, lines) ==
  IF j > Len(PrereqsOf(course)) THEN lines
  ELSE LET prereq == PrereqsOf(course)[j]
       IN  UncheckedLinesOfCourse(course, j + 1, positions,
             Append(lines, [id     |-> EdgeId(prereq, course.course_number),
                            source |-> IF prereq \in DOMAIN positions
                                       THEN positions[prereq] ELSE Null,
                            target |-> positions[course.course_number]]))

RECURSIVE UncheckedLinesFrom(_, _, _, _)
UncheckedLinesFrom(courses, i, positions, lines) ==
  IF i > Len(courses) THEN lines
  ELSE UncheckedLinesFrom(courses, i + 1, positions,
         IF courses[i].course_number \notin DOMAIN positions THEN lines
         ELSE UncheckedLinesOfCourse(courses[i], 1, positions, lines))

UncheckedPrerequisiteLines(structure, positions) ==
  IF structure = Null THEN << >>
  ELSE UncheckedLinesFrom(structure.courses, 1, positions, << >>)

\* the useMemo on [programStructure, nodePositions]: the arrowed lines
renderPrerequisiteLines(structure, positions) ==
  IF structure = Null THEN << >>
  ELSE LinesFrom(structure.courses, 1, positions, << >>)

\* the "Draw edges" loop of the render: the plain lines, nulls left out
RECURSIVE PlainOfCourse(_, _, _, _)
PlainOfCourse(course, j, positions, lines) ==
  IF j > Len(PrereqsOf(course)) THEN lines
  ELSE LET prereq == PrereqsOf(course)[j]
       IN  PlainOfCourse(course, j + 1, positions,
             IF prereq \notin DOMAIN positions
                \/ course.course_number \notin DOMAIN positions
             THEN lines
             ELSE Append(lines, [key |-> EdgeId(prereq, course.course_number),
                                 x1 |-> positions[prereq].x,
                                 y1 |-> positions[prereq].y,
                                 x2 |-> positions[course.course_number].x,
                                 y2 |-> positions[course.course_number].y]))

RECURSIVE PlainFrom(_, _, _, _)
PlainFrom(courses, i, positions, lines) ==
  IF i > Len(courses) THEN lines
  ELSE PlainFrom(courses, i + 1, positions,
                 PlainOfCourse(courses[i], 1, positions, lines))

PlainLines(structure, positions) ==
  IF structure = Null THEN << >>
  ELSE PlainFrom(structure.courses, 1, positions, << >>)

(***************************************************************************)
(* Edge opacities, in hundredths.                                          *)
(***************************************************************************)
\* text.includes(part): part occurs in text at some index
RECURSIVE IncludesFrom(_, _, _)
IncludesFrom(text, part, i) ==
  IF i + Len(part) - 1 > Len(text) THEN FALSE
  ELSE IF \A k \in 1..Len(part) : text[i + k - 1] = part[k] THEN TRUE
  ELSE IncludesFrom(text, part, i + 1)

Includes(text, part) == IncludesFrom(text, part, 1)

\* an arrowed-line opacity that compares the two halves of the id exactly
ArrowedOpacityExact(line, selected) ==
  IF Truthy(selected)
  THEN IF \/ /\ Len(line.id) > Len(selected)
             /\ SubSeq(line.id, 1, Len(selected) + 1) = selected \o << "-" >>
          \/ /\ Len(line.id) > Len(selected)
             /\ SubSeq(line.id, Len(line.id) - Len(selected), Len(line.id))
                  = << "-" >> \o selected
       THEN 200 ELSE 10
  ELSE 1

\* opacity of an arrowed line: selectedNode ? (line.id.includes(selectedNode) ? 2 : 0.1) : 0.01
ArrowedOpacity(line, selected) ==
  IF Truthy(selected)
  THEN IF Includes(line.id, selected) THEN 200 ELSE 10
  ELSE 1

\* opacity of a plain line: selectedNode ? (selectedNode === course.course_number
\* || selectedNode === prereq ? 1 : 0.2) : 0.5
PlainOpacity(prereq, courseNumber, selected) ==
  IF Truthy(selected)
  THEN IF selected = courseNumber \/ selected = prereq THEN 100 ELSE 20
  ELSE 50

(***************************************************************************)
(* The component: what is rendered, and the handlers.                      *)
(***************************************************************************)
\* {programStructure && (<svg ...>)}: the drawing surface exists
SvgMounted == programStructure # Null

\* the courses drawn as nodes: those of the program that have a position
RenderedNodes ==
  { c \in CourseNumbers(programStructure) : c \in DOMAIN nodePositions }

\* a panel that looks the selected course up in the department files
PanelCourseFromCatalog ==
  IF Truthy(selectedNode)
  THEN Merge([course_number |-> selectedNode], getCourseDetails(selectedNode))
  ELSE Null

\* the course the info panel shows, Null when it shows the placeholder
PanelCourse ==
  IF Truthy(selectedNode) /\ programStructure # Null
  THEN FindCourse(programStructure.courses, 1, selectedNode)
  ELSE Null

\* the <li> entries of the panel's prerequisite list
PanelPrereqs == IF PanelCourse = Null THEN {} ELSE Range(PrereqsOf(PanelCourse))

\* the <option> values of the program selector
Options == {""} \cup { programsData[i].program : i \in DOMAIN programsData }

Origin == [x |-> 0, y |-> 0]
NoListeners == [target |-> "none", isDragging |-> FALSE, dragStart |-> Origin]

\* the event object, and the selection the event found
Event(type, pos, button, course, value, width) ==
  [type |-> type, pos |-> pos, button |-> button, course |-> course,
   value |-> value, width |-> width, sel |-> selectedNode]

\* the effect on [isDragging, dragStart]: its cleanup removes the listeners it
\* added, then it adds them to the svg now mounted, closing over this render
Resubscribed(dragging, start) ==
  IF SvgMounted
  THEN [target |-> "svg", isDragging |-> dragging, dragStart |-> start]
  ELSE NoListeners

\* a program change whose layout keeps the positions of the program left
ChangeKeepingPositions(value) ==
  /\ selectedProgram' = value
  /\ programStructure' = ProgramStructureOf(programsData, value)
  /\ \E l \in Layouts(programStructure', containerWidth) :
       /\ nodePositions' = l.nodePositions @@ nodePositions
       /\ svgDimensions' = l.svgDimensions
  /\ listeners' = IF listeners.target = "svg" /\ programStructure' = Null
                  THEN [listeners EXCEPT !.target = "detached"]
                  ELSE listeners
  /\ UNCHANGED << selectedNode, containerWidth, offset, isDragging,
                  dragStart >>

\* a program change that also re-centres the map
ChangeResettingPan(value) ==
  /\ selectedProgram' = value
  /\ programStructure' = ProgramStructureOf(programsData, value)
  /\ offset' = Origin
  /\ \E l \in Layouts(programStructure', containerWidth) :
       /\ nodePositions' = l.nodePositions
       /\ svgDimensions' = l.svgDimensions
  /\ listeners' = listeners
  /\ UNCHANGED << selectedNode, containerWidth, isDragging, dragStart >>

\* <select onChange>: setSelectedProgram(e.target.value), then the re-render
onChange(value) ==
  IF value = selectedProgram
  THEN UNCHANGED << selectedProgram, programStructure, selectedNode,
                    containerWidth, offset, isDragging, dragStart,
                    nodePositions, svgDimensions, listeners >>
  ELSE LET after == ProgramStructureOf(programsData, value)
       IN  /\ selectedProgram' = value
           /\ programStructure' = after
           /\ \E l \in Layouts(after, containerWidth) :
                /\ nodePositions' = l.nodePositions
                /\ svgDimensions' = l.svgDimensions
           \* an unmounted svg takes its listeners with it; a new one has none
           /\ listeners' = IF listeners.target = "svg" /\ after = Null
                           THEN [listeners EXCEPT !.target = "detached"]
                           ELSE listeners
           /\ UNCHANGED << selectedNode, containerWidth, offset, isDragging,
                           dragStart >>

\* a resize handler whose re-render lays the map out again at the same width
updateWidthRelayout(innerWidth) ==
  LET width == innerWidth - 48
  IN  /\ containerWidth' = width
      /\ \E l \in Layouts(programStructure, width) :
           /\ nodePositions' = l.nodePositions
           /\ svgDimensions' = l.svgDimensions
      /\ UNCHANGED << selectedProgram, programStructure, selectedNode,
                      offset, isDragging, dragStart, listeners >>

\* updateWidth: setContainerWidth(window.innerWidth - 48), then the re-render
updateWidth(innerWidth) ==
  LET width == innerWidth - 48
  IN  IF width = containerWidth
      THEN UNCHANGED << selectedProgram, programStructure, selectedNode,
                        containerWidth, offset, isDragging, dragStart,
                        nodePositions, svgDimensions, listeners >>
      ELSE /\ containerWidth' = width
           /\ \E l \in Layouts(programStructure, width) :
                /\ nodePositions' = l.nodePositions
                /\ svgDimensions' = l.svgDimensions
           /\ UNCHANGED << selectedProgram, programStructure, selectedNode,
                           offset, isDragging, dragStart, listeners >>

\* a press handler that starts a drag on any button
handleMouseDownAnyButton(e) ==
  LET start == [x |-> e.pos.x - offset.x, y |-> e.pos.y - offset.y]
  IN  /\ isDragging' = TRUE
      /\ dragStart' = start
      /\ listeners' = Resubscribed(TRUE, start)
      /\ UNCHANGED << selectedProgram, programStructure, selectedNode,
                      containerWidth, offset, nodePositions, svgDimensions >>

\* handleMouseDown, the svg's onMouseDown (presses on nodes bubble to it)
handleMouseDown(e) ==
  IF e.button = 0
  THEN LET start == [x |-> e.pos.x - offset.x, y |-> e.pos.y - offset.y]
       IN  /\ isDragging' = TRUE
           /\ dragStart' = start
           /\ listeners' = Resubscribed(TRUE, start)
           /\ UNCHANGED << selectedProgram, programStructure, selectedNode,
                           containerWidth, offset, nodePositions,
                           svgDimensions >>
  ELSE UNCHANGED << selectedProgram, programStructure, selectedNode,
                    containerWidth, offset, isDragging, dragStart,
                    nodePositions, svgDimensions, listeners >>

\* handleMouseMove as registered: it reads the isDragging and dragStart it closed over
handleMouseMove(e) ==
  IF listeners.target = "svg" /\ listeners.isDragging
  THEN /\ offset' = [x |-> e.pos.x - listeners.dragStart.x,
                     y |-> e.pos.y - listeners.dragStart.y]
       /\ UNCHANGED << selectedProgram, programStructure, selectedNode,
                       containerWidth, isDragging, dragStart, nodePositions,
                       svgDimensions, listeners >>
  ELSE UNCHANGED << selectedProgram, programStructure, selectedNode,
                    containerWidth, offset, isDragging, dragStart,
                    nodePositions, svgDimensions, listeners >>

\* handleMouseUp as registered for mouseup and mouseleave
handleMouseUp ==
  IF listeners.target = "svg" /\ isDragging
  THEN /\ isDragging' = FALSE
       /\ listeners' = Resubscribed(FALSE, dragStart)
       /\ UNCHANGED << selectedProgram, programStructure, selectedNode,
                       containerWidth, offset, dragStart, nodePositions,
                       svgDimensions >>
  ELSE UNCHANGED << selectedProgram, programStructure, selectedNode,
                    containerWidth, offset, isDragging, dragStart,
                    nodePositions, svgDimensions, listeners >>

\* the node's onMouseEnter
onMouseEnter(course) ==
  /\ selectedNode' = course
  /\ UNCHANGED << selectedProgram, programStructure, containerWidth, offset,
                  isDragging, dragStart, nodePositions, svgDimensions,
                  listeners >>

\* a leave that clears the selection only if it is the node being left
LeaveOwnOnly(course) ==
  /\ selectedNode' = IF selectedNode = course THEN Null ELSE selectedNode
  /\ UNCHANGED << selectedProgram, programStructure, containerWidth, offset,
                  isDragging, dragStart, nodePositions, svgDimensions,
                  listeners >>

\* the node's onMouseLeave
onMouseLeave(course) ==
  /\ selectedNode' = Null
  /\ UNCHANGED << selectedProgram, programStructure, containerWidth, offset,
                  isDragging, dragStart, nodePositions, svgDimensions,
                  listeners >>

\* the link of a course, "undefined" when its record has none
LinkOf(courseNumber) ==
  LET course == FindCourse(programStructure.courses, 1, courseNumber)
  IN  IF "link" \in DOMAIN course THEN course.link ELSE "undefined"

\* a click handler that also selects the node
ClickSelecting(course) ==
  /\ opened' = << LinkOf(course) >>
  /\ selectedNode' = course
  /\ UNCHANGED << selectedProgram, programStructure, containerWidth, offset,
                  isDragging, dragStart, nodePositions, svgDimensions,
                  listeners >>

\* the node's onClick: e.stopPropagation(); window.open(course.link, "_blank")
onClick(course) ==
  /\ opened' = << LinkOf(course) >>
  /\ UNCHANGED << selectedProgram, programStructure, selectedNode,
                  containerWidth, offset, isDragging, dragStart,
                  nodePositions, svgDimensions, listeners >>

\* a prerequisite click that selects without looking for a position
PrereqClickUnchecked(prereq) ==
  /\ selectedNode' = prereq
  /\ UNCHANGED << selectedProgram, programStructure, containerWidth, offset,
                  isDragging, dragStart, nodePositions, svgDimensions,
                  listeners >>

\* the prerequisite <li>'s onClick
onPrereqClick(prereq) ==
  IF prereq \in DOMAIN nodePositions
  THEN /\ selectedNode' = prereq
       /\ UNCHANGED << selectedProgram, programStructure, containerWidth,
                       offset, isDragging, dragStart, nodePositions,
                       svgDimensions, listeners >>
  ELSE UNCHANGED << selectedProgram, programStructure, selectedNode,
                    containerWidth, offset, isDragging, dragStart,
                    nodePositions, svgDimensions, listeners >>

(***************************************************************************)
(* Events.                                                                 *)
(***************************************************************************)
InPan(o) == /\ -MaxPan <= o.x /\ o.x <= MaxPan
            /\ -MaxPan <= o.y /\ o.y <= MaxPan

Change(value) ==
  /\ ev' = Event("change", Origin, 0, Null, value, 0)
  /\ opened' = << >>
  /\ onChange(value)
  /\ UNCHANGED programsData

Resize(innerWidth) ==
  /\ ev' = Event("resize", Origin, 0, Null, "", innerWidth)
  /\ opened' = << >>
  /\ updateWidth(innerWidth)
  /\ UNCHANGED programsData

\* a press at pos on the surface; course is the node under the pointer, Null
\* when there is none (the press bubbles to the svg either way)
MouseDown(pos, button, course) ==
  /\ SvgMounted
  /\ course = Null \/ course \in RenderedNodes
  /\ ev' = Event("mousedown", pos, button, course, "", 0)
  /\ opened' = << >>
  /\ handleMouseDown(ev')
  /\ UNCHANGED programsData

MouseMove(pos) ==
  /\ SvgMounted
  /\ ev' = Event("mousemove", pos, 0, Null, "", 0)
  /\ opened' = << >>
  /\ handleMouseMove(ev')
  /\ InPan(offset')
  /\ UNCHANGED programsData

MouseUp ==
  /\ SvgMounted
  /\ ev' = Event("mouseup", Origin, 0, Null, "", 0)
  /\ opened' = << >>
  /\ handleMouseUp
  /\ UNCHANGED programsData

MouseLeave ==
  /\ SvgMounted
  /\ ev' = Event("mouseleave", Origin, 0, Null, "", 0)
  /\ opened' = << >>
  /\ handleMouseUp
  /\ UNCHANGED programsData

HoverEnter(course) ==
  /\ course \in RenderedNodes
  /\ ev' = Event("enter", Origin, 0, course, "", 0)
  /\ opened' = << >>
  /\ onMouseEnter(course)
  /\ UNCHANGED programsData

HoverLeave(course) ==
  /\ course \in RenderedNodes
  /\ ev' = Event("leave", Origin, 0, course, "", 0)
  /\ opened' = << >>
  /\ onMouseLeave(course)
  /\ UNCHANGED programsData

Click(course) ==
  /\ course \in RenderedNodes
  /\ ev' = Event("click", Origin, 0, course, "", 0)
  /\ onClick(course)
  /\ UNCHANGED programsData

PrereqClick(prereq) ==
  /\ prereq \in PanelPrereqs
  /\ ev' = Event("prereqclick", Origin, 0, prereq, "", 0)
  /\ opened' = << >>
  /\ onPrereqClick(prereq)
  /\ UNCHANGED programsData

(***************************************************************************)
(* Specifications.                                                         *)
(***************************************************************************)
\* the component after mounting: the mount effect has measured the window,
\* and the listener effect found no svg to subscribe to
Mounted(data) ==
  /\ programsData = data
  /\ selectedProgram = ""
  /\ programStructure = Null
  /\ selectedNode = Null
  /\ containerWidth \in { w - 48 : w \in InnerWidths }
  /\ offset = Origin
  /\ isDragging = FALSE
  /\ dragStart = Origin
  /\ nodePositions = Layout(Null, containerWidth, << >>).nodePositions
  /\ svgDimensions = Layout(Null, containerWidth, << >>).svgDimensions
  /\ listeners = NoListeners
  /\ opened = << >>
  /\ ev = [type |-> "mount", pos |-> Origin, button |-> 0, course |-> Null,
           value |-> "", width |-> containerWidth + 48, sel |-> Null]

Init == Mounted(Catalog)

Next ==
  \/ \E value \in Options : Change(value)
  \/ \E w \in InnerWidths : Resize(w)
  \/ \E pos \in Points, button \in Buttons, course \in RenderedNodes \cup {Null} :
       MouseDown(pos, button, course)
  \/ \E pos \in Points : MouseMove(pos)
  \/ MouseUp
  \/ MouseLeave
  \/ \E course \in RenderedNodes : HoverEnter(course)
  \/ \E course \in RenderedNodes : HoverLeave(course)
  \/ \E course \in RenderedNodes : Click(course)
  \/ \E prereq \in PanelPrereqs : PrereqClick(prereq)

Spec == Init /\ [][Next]_vars

\* the layout pipeline alone, over every catalog of one program
InitAny == \E data \in Catalogs : Mounted(data)

NextLayout ==
  \/ \E value \in Options : Change(value)
  \/ \E w \in InnerWidths : Resize(w)

SpecLayout == InitAny /\ [][NextLayout]_vars

(***************************************************************************)
(* Properties.                                                             *)
(***************************************************************************)
\* the number printed on each course of the data files, read off by hand
ListedNumber(courseNumber) ==
  CASE courseNumber = A10  -> 10
    [] courseNumber = A100 -> 100
    [] courseNumber = A120 -> 120
    [] courseNumber = B150 -> 150
    [] courseNumber = A200 -> 200
    [] courseNumber = A210 -> 210
    [] courseNumber = A300 -> 300
    [] courseNumber = A999 -> 999

\* floor(number / 100) * 100 of a course
ListedLevel(courseNumber) ==
  ListedNumber(courseNumber) - (ListedNumber(courseNumber) % 100)

\* the course numbers of the active program's list, in list order
ActiveList ==
  IF programStructure = Null THEN << >>
  ELSE [i \in DOMAIN programStructure.courses |->
          programStructure.courses[i].course_number]

\* the (prerequisite, dependent) pairs the active program's courses declare
DeclaredPairs ==
  IF programStructure = Null THEN {}
  ELSE UNION { { << PrereqsOf(programStructure.courses[i])[j], ActiveList[i] >> :
                   j \in DOMAIN PrereqsOf(programStructure.courses[i]) } :
               i \in DOMAIN ActiveList }

ArrowedLines == renderPrerequisiteLines(programStructure, nodePositions)
DrawnPlainLines == PlainLines(programStructure, nodePositions)

\* C1: after any program selections and resizes, every arrowed and every plain
\* edge runs between two keys of the current position mapping, and a
\* prerequisite outside the active program's list yields no edge.
C1_EdgesJoinPositionedCourses ==
  /\ \A i \in DOMAIN ArrowedLines :
       \E p \in DOMAIN nodePositions, c \in DOMAIN nodePositions :
         /\ ArrowedLines[i].id = EdgeId(p, c)
         /\ ArrowedLines[i].source = nodePositions[p]
         /\ ArrowedLines[i].target = nodePositions[c]
  /\ \A i \in DOMAIN DrawnPlainLines :
       \E p \in DOMAIN nodePositions, c \in DOMAIN nodePositions :
         /\ DrawnPlainLines[i].key = EdgeId(p, c)
         /\ DrawnPlainLines[i].x1 = nodePositions[p].x
         /\ DrawnPlainLines[i].y1 = nodePositions[p].y
         /\ DrawnPlainLines[i].x2 = nodePositions[c].x
         /\ DrawnPlainLines[i].y2 = nodePositions[c].y
  /\ \A pair \in DeclaredPairs :
       pair[1] \notin Range(ActiveList) =>
         /\ \A i \in DOMAIN ArrowedLines : ArrowedLines[i].id # EdgeId(pair[1], pair[2])
         /\ \A i \in DOMAIN DrawnPlainLines :
              DrawnPlainLines[i].key # EdgeId(pair[1], pair[2])

\* a resize has just re-laid a program that has an edge and a dangling prerequisite
C1_Witness ==
  /\ ev.type = "resize"
  /\ Len(ArrowedLines) >= 1
  /\ Len(DrawnPlainLines) >= 1
  /\ \E pair \in DeclaredPairs : pair[1] \notin Range(ActiveList)

\* the courses of the active list whose listed level is level, in list order
RECURSIVE ListedBucketFrom(_, _)
ListedBucketFrom(level, i) ==
  IF i > Len(ActiveList) THEN << >>
  ELSE (IF ListedLevel(ActiveList[i]) = level THEN << ActiveList[i] >> ELSE << >>)
       \o ListedBucketFrom(level, i + 1)

ListedBucket(level) == ListedBucketFrom(level, 1)

ListedLevels == { ListedLevel(c) : c \in Range(ActiveList) }

\* how many times courseNumber occurs in the bucket courses
Occurrences(courses, courseNumber) ==
  Cardinality({ k \in DOMAIN courses : courses[k].course_number = courseNumber })

\* C2: the level buckets partition the course list: as many buckets as
\* distinct floor(number/100)*100 values, every course in exactly one bucket,
\* the one of its own level, and no bucket empty.
C2_LevelsPartitionCourses ==
  programStructure # Null =>
    LET levels == programStructure.levels
    IN  /\ Cardinality(DOMAIN levels) = Cardinality(ListedLevels)
        /\ DOMAIN levels = ListedLevels
        /\ \A level \in DOMAIN levels : Len(levels[level]) >= 1
        /\ \A c \in Range(ActiveList) :
             /\ Occurrences(levels[ListedLevel(c)], c) = 1
             /\ \A level \in DOMAIN levels \ {ListedLevel(c)} :
                  Occurrences(levels[level], c) = 0

\* a program with two courses in one level and a course in another is classified
C2_Witness ==
  /\ programStructure # Null
  /\ Cardinality(DOMAIN programStructure.levels) >= 2
  /\ \E level \in DOMAIN programStructure.levels :
       Len(programStructure.levels[level]) >= 2

Minus(p, q) == [x |-> p.x - q.x, y |-> p.y - q.y]

\* C3: a primary press at p0 with offset o0 leaves the offset alone, starts the
\* drag and sets the anchor to p0 - o0; every move to p while dragging then
\* gives offset p - anchor, that is o0 + (p - p0).
C3_DragArithmetic ==
  [][ /\ (ev'.type = "mousedown" /\ ev'.button = 0) =>
           /\ offset' = offset
           /\ isDragging'
           /\ dragStart' = Minus(ev'.pos, offset)
      /\ (ev'.type = "mousemove" /\ isDragging) =>
           /\ offset' = Minus(ev'.pos, dragStart)
           /\ dragStart' = dragStart
           /\ isDragging' ]_vars

\* C4: a release or a leave of the surface ends the drag, and a move outside a
\* drag leaves the offset as it was.
C4_ReleaseFreezesOffset ==
  [][ /\ ev'.type \in {"mouseup", "mouseleave"} => ~isDragging'
      /\ (ev'.type = "mousemove" /\ ~isDragging) => offset' = offset ]_vars

\* C5: a hover-enter selects the entered course whatever was selected, and a
\* hover-leave clears the selection whatever is selected.
C5_LastEnterWins ==
  /\ ev.type = "enter" => selectedNode = ev.course
  /\ ev.type = "leave" => selectedNode = Null

\* a node is left while another course is the selected one
C5_Witness ==
  /\ ev.type = "leave"
  /\ Truthy(ev.sel)
  /\ ev.sel # ev.course
  /\ selectedNode = Null

\* C6: a primary press that lands on a node does not start a drag, and moves
\* after it do not pan.
C6_NodePressStartsNoDrag ==
  [][ /\ (ev'.type = "mousedown" /\ Truthy(ev'.course) /\ ~isDragging) =>
           ~isDragging'
      /\ (ev.type = "mousedown" /\ Truthy(ev.course) /\ ev'.type = "mousemove") =>
           offset' = offset ]_vars

\* C7: a click on a node opens its link and leaves the selection as it was.
C7_ClickKeepsSelection ==
  ev.type = "click" => (selectedNode = ev.sel /\ Len(opened) = 1)

\* a node is clicked while it is not the selected course
C7_Witness ==
  /\ ev.type = "click"
  /\ selectedNode # ev.course
  /\ Len(opened) = 1

\* C8: a click on prerequisite p selects p exactly when p has a position;
\* otherwise nothing changes.
C8_PrereqClickNeedsPosition ==
  [][ ev'.type = "prereqclick" =>
        IF ev'.course \in DOMAIN nodePositions
        THEN selectedNode' = ev'.course
        ELSE /\ selectedNode' # ev'.course
             /\ UNCHANGED << selectedNode, offset, isDragging, dragStart,
                             nodePositions, svgDimensions, selectedProgram >> ]_vars

\* a prerequisite without a position has been clicked, to no effect
C8_Witness ==
  /\ ev.type = "prereqclick"
  /\ ev.course \notin DOMAIN nodePositions
  /\ selectedNode = ev.sel
  /\ Truthy(selectedNode)

\* C9: a program change leaves offset, anchor and drag state as they were,
\* and only pointer moves change the offset.
C9_ProgramChangeKeepsPan ==
  [][ /\ ev'.type = "change" => UNCHANGED << offset, dragStart, isDragging >>
      /\ offset' # offset => ev'.type = "mousemove" ]_vars

\* the program has just been changed in the middle of a drag, with the map panned
C9_Witness ==
  /\ ev.type = "change"
  /\ ev.value # ""
  /\ ev.value = selectedProgram
  /\ isDragging
  /\ offset # Origin

\* C10: within a level of n courses the k-th in list order is at
\* (k - (n-1)/2) * 120 + mapWidth/2 with mapWidth = 0.7 * canvasWidth:
\* neighbours are 120 apart, the mean is mapWidth/2, a lone course is at
\* mapWidth/2.  (Stated times 20, to stay in the integers.)
RECURSIVE SumX(_, _)
SumX(bucket, i) ==
  IF i > Len(bucket) THEN 0 ELSE nodePositions[bucket[i]].x + SumX(bucket, i + 1)

C10_HorizontalCentering ==
  \A level \in ListedLevels :
    LET bucket == ListedBucket(level)
        n == Len(bucket)
    IN  /\ \A k \in 0..(n - 1) :
             20 * nodePositions[bucket[k + 1]].x
               = 2400 * k - 1200 * (n - 1) + 7 * containerWidth
        /\ \A k \in 1..(n - 1) :
             nodePositions[bucket[k + 1]].x - nodePositions[bucket[k]].x = 120
        /\ 20 * SumX(bucket, 1) = n * 7 * containerWidth
        /\ n = 1 => 20 * nodePositions[bucket[1]].x = 7 * containerWidth

\* a program with a level of several courses and a level of one has been laid
\* out again after a resize
C10_Witness ==
  /\ ev.type = "resize"
  /\ \E level \in ListedLevels : Len(ListedBucket(level)) >= 2
  /\ \E level \in ListedLevels : Len(ListedBucket(level)) = 1

\* the 0-based rank of a level among the active list's levels, ascending
ListedRank(level) == Cardinality({ l \in ListedLevels : l < level })

\* C11: whatever the list order, the level of rank i has baseY = i * 150 + 100
\* (every y is within 15 of it), so a course of a lower level lies above a
\* course of a higher one.
C11_LevelsStackAscending ==
  /\ \A c \in Range(ActiveList) :
       LET baseY == ListedRank(ListedLevel(c)) * 150 + 100
       IN  /\ baseY - 15 <= nodePositions[c].y
           /\ nodePositions[c].y <= baseY + 15
  /\ \A c \in Range(ActiveList), d \in Range(ActiveList) :
       ListedLevel(c) < ListedLevel(d) => nodePositions[c].y < nodePositions[d].y

\* a program that lists a higher-level course before a lower-level one is laid out
C11_Witness ==
  /\ Len(ActiveList) >= 2
  /\ ListedLevel(ActiveList[1]) > ListedLevel(ActiveList[2])
  /\ nodePositions[ActiveList[1]].y > nodePositions[ActiveList[2]].y

Distance(a, b) == IF a >= b THEN a - b ELSE b - a

\* C12: a second layout of the same course list at the same width gives the
\* same keys, the same x for every course, a y within 15 of the level's baseY
\* in both runs (so at most 30 apart), and the same extent.
C12_LayoutRepeatsUpToJitter ==
  \A again \in Layouts(programStructure, containerWidth) :
    /\ DOMAIN again.nodePositions = DOMAIN nodePositions
    /\ \A c \in DOMAIN nodePositions :
         LET baseY == ListedRank(ListedLevel(c)) * 150 + 100
         IN  /\ again.nodePositions[c].x = nodePositions[c].x
             /\ Distance(again.nodePositions[c].y, baseY) <= 15
             /\ Distance(nodePositions[c].y, baseY) <= 15
             /\ Distance(again.nodePositions[c].y, nodePositions[c].y) <= 30
    /\ again.svgDimensions = svgDimensions

\* a layout is in place that a second run can reproduce with other jitter
C12_Witness ==
  /\ ev.type = "resize"
  /\ Cardinality(DOMAIN nodePositions) >= 2
  /\ \E again \in Layouts(programStructure, containerWidth) :
       \E c \in DOMAIN nodePositions :
         again.nodePositions[c].y # nodePositions[c].y

\* the (course index, prerequisite index) entries of the active program whose
\* prerequisite is itself a course of the active program
ResolvedEntries ==
  IF programStructure = Null THEN {}
  ELSE UNION { { << i, j >> : j \in { k \in DOMAIN PrereqsOf(programStructure.courses[i]) :
                                       PrereqsOf(programStructure.courses[i])[k]
                                         \in Range(ActiveList) } } :
               i \in DOMAIN ActiveList }

\* C13: every prerequisite entry p of a course c with p in the active program
\* has an edge "p-c" from p's position to c's position, and there are exactly
\* as many edges as such entries; the list A 100, A 200, A 300 gives 2 edges
\* and 3 positioned nodes.
C13_EdgesCompleteAndDirected ==
  /\ \A e \in ResolvedEntries :
       LET c == ActiveList[e[1]]
           p == PrereqsOf(programStructure.courses[e[1]])[e[2]]
       IN  \E i \in DOMAIN ArrowedLines :
             /\ ArrowedLines[i].id = EdgeId(p, c)
             /\ ArrowedLines[i].source = nodePositions[p]
             /\ ArrowedLines[i].target = nodePositions[c]
  /\ Len(ArrowedLines) = Cardinality(ResolvedEntries)
  /\ ActiveList = << A100, A200, A300 >> =>
       /\ Len(ArrowedLines) = 2
       /\ Cardinality(DOMAIN nodePositions) = 3

\* the program A 100, A 200, A 300 (A 300 also asks for the missing A 999) is laid out
C13_Witness ==
  /\ ActiveList = << A100, A200, A300 >>
  /\ Len(ArrowedLines) = 2
  /\ A999 \in Range(PrereqsOf(programStructure.courses[3]))

\* the course numbers programs.json lists for the selected program
SelectedProgramCourses ==
  UNION { { programsData[i].courses[j].course_number :
              j \in DOMAIN programsData[i].courses } :
          i \in { k \in DOMAIN programsData :
                    programsData[k].program = selectedProgram } }

\* C14: the keys of the position mapping are exactly the course numbers of the
\* selected program's list: none missing, none left from an earlier program,
\* and none at all when no program is selected.
C14_PositionsAreActiveCourses ==
  /\ DOMAIN nodePositions = SelectedProgramCourses
  /\ selectedProgram = "" => nodePositions = << >>

\* P1 is laid out after P2 was on display (the selection still names a P2 course)
C14_Witness ==
  /\ selectedProgram = "P1"
  /\ selectedNode = A210
  /\ DOMAIN nodePositions = { A200, A100 }

\* C15: whenever the active course list is empty (no program selected, or a
\* selected program without courses) the position mapping is empty and the
\* extent is the fallback canvas, 1000 by 800.
C15_EmptyListGivesFallbackCanvas ==
  SelectedProgramCourses = {} =>
    /\ nodePositions = << >>
    /\ svgDimensions = [width |-> 1000, height |-> 800]

\* C16: a press with a non-primary button while Idle leaves the drag state
\* Idle and the anchor and the offset as they were, and the move after it
\* does not pan.
C16_OnlyPrimaryButtonDrags ==
  [][ /\ (ev'.type = "mousedown" /\ ev'.button # 0 /\ ~isDragging) =>
           /\ ~isDragging'
           /\ dragStart' = dragStart
           /\ offset' = offset
      /\ (ev.type = "mousedown" /\ ev.button # 0 /\ ~isDragging
            /\ ev'.type = "mousemove") =>
           offset' = offset ]_vars

\* a secondary-button press has arrived while Idle, with the map already panned
C16_Witness ==
  /\ ev.type = "mousedown"
  /\ ev.button = 2
  /\ ~isDragging
  /\ offset # Origin

\* part occurs in text as a run of consecutive characters
OccursIn(text, part) ==
  \E i \in 1..(Len(text) - Len(part) + 1) :
    SubSeq(text, i, i + Len(part) - 1) = part

\* C17: with a course s selected, the plain edge of a pair (p, c) is emphasized
\* exactly when s = p or s = c, the arrowed edge exactly when "p-c" contains s;
\* so an emphasized plain edge has an emphasized arrowed edge, and the two
\* differ only when s occurs inside the id without being p or c.
C17_HighlightDecisions ==
  Truthy(selectedNode) =>
    \A e \in ResolvedEntries :
      LET c == ActiveList[e[1]]
          p == PrereqsOf(programStructure.courses[e[1]])[e[2]]
          plain == PlainOpacity(p, c, selectedNode) = 100
      IN  /\ plain <=> (selectedNode = p \/ selectedNode = c)
          /\ PlainOpacity(p, c, selectedNode) \in {100, 20}
          /\ \A i \in DOMAIN ArrowedLines :
               ArrowedLines[i].id = EdgeId(p, c) =>
                 LET arrowed == ArrowedOpacity(ArrowedLines[i], selectedNode) = 200
                 IN  /\ arrowed <=> OccursIn(EdgeId(p, c), selectedNode)
                     /\ ArrowedOpacity(ArrowedLines[i], selectedNode) \in {200, 10}
                     /\ plain => arrowed
                     /\ (arrowed # plain) =>
                          /\ selectedNode # p
                          /\ selectedNode # c
                          /\ OccursIn(EdgeId(p, c), selectedNode)

\* "A 10" is selected: the arrowed edge "A 100-A 210" is emphasized, the plain one is not
C17_Witness ==
  /\ selectedNode = A10
  /\ \E i \in DOMAIN ArrowedLines :
       /\ ArrowedLines[i].id = EdgeId(A100, A210)
       /\ ArrowedOpacity(ArrowedLines[i], selectedNode) = 200
  /\ PlainOpacity(A100, A210, selectedNode) = 20

\* C18: the position mapping (jitter included) and the extent change only in a
\* step that changes the selected program or the canvas width; hover, click,
\* prerequisite click, press, move, release, surface leave, re-selecting the
\* selected program and a resize to the same width leave both as they were.
C18_LayoutChangesOnlyWithInputs ==
  [][ /\ (nodePositions' # nodePositions \/ svgDimensions' # svgDimensions) =>
           (selectedProgram' # selectedProgram \/ containerWidth' # containerWidth)
      /\ ev'.type \in { "enter", "leave", "click", "prereqclick",
                        "mousedown", "mousemove", "mouseup", "mouseleave" } =>
           (nodePositions' = nodePositions /\ svgDimensions' = svgDimensions)
      /\ (ev'.type = "change" /\ ev'.value = selectedProgram) =>
           (nodePositions' = nodePositions /\ svgDimensions' = svgDimensions)
      /\ (ev'.type = "resize" /\ ev'.width - 48 = containerWidth) =>
           (nodePositions' = nodePositions /\ svgDimensions' = svgDimensions)
    ]_vars

\* a move has panned the map while courses are laid out and one is hovered
C18_Witness ==
  /\ ev.type = "mousemove"
  /\ offset # Origin
  /\ Truthy(selectedNode)
  /\ DOMAIN nodePositions # {}

\* C19: between events exactly one set of move/release/leave listeners is
\* registered on the drawing surface whenever it is drawn (none is left once
\* it is gone), and the registered handlers close over the current drag state
\* and anchor, so none still sees isDragging = TRUE after a release.
C19_ScopedSubscription ==
  /\ SvgMounted => listeners.target = "svg"
  /\ ~SvgMounted => listeners.target = "none"
  /\ listeners.target = "svg" =>
       /\ listeners.isDragging = isDragging
       /\ listeners.dragStart = dragStart
  /\ ev.type \in {"mouseup", "mouseleave"} => ~listeners.isDragging

\* C20: a program change keeps the selection, and the panel shows course
\* details exactly when the selected course is non-null and in the selected
\* program's list (the details being those of the selected course); otherwise
\* it shows the placeholder, also for a selection that survived a switch.
C20_PanelShowsActiveCourseOnly ==
  /\ PanelCourse # Null <=>
       (Truthy(selectedNode) /\ selectedNode \in SelectedProgramCourses)
  /\ PanelCourse # Null => PanelCourse.course_number = selectedNode
  /\ ev.type = "change" => selectedNode = ev.sel

\* the change to P1 kept the selection of "A 210", a course of P2 only
C20_Witness ==
  /\ ev.type = "change"
  /\ selectedProgram = "P1"
  /\ selectedNode = A210
  /\ PanelCourse = Null

====
